---- MODULE Spec2Model ----
(***************************************************************************)
(* A model of res.py: first-order resolution refutation.                   *)
(*                                                                         *)
(* Python values are modelled as follows.                                  *)
(*   str        a sequence of one-character strings, so that index, slice, *)
(*              strip, split and concatenation are computed as Python      *)
(*              computes them                                              *)
(*   dict       a function whose domain is the set of keys                 *)
(*   set        a set of objects no two of which are __eq__-equal          *)
(*   object     a record; the field id stands for the object's identity    *)
(*              (the operand of Python's "is")                             *)
(*   outcome    [kind |-> "val", val |-> v]   a returned value             *)
(*              [kind |-> "None"]             the value None               *)
(*              [kind |-> "raise", exc |-> e] an exception e propagating   *)
(*              [kind |-> "exit", out |-> s]  exit() after printing s      *)
(***************************************************************************)
EXTENDS Integers, Sequences, FiniteSets, TLC

VARIABLES
    clauses,          \* resolver: the parsed input clauses
    current_clauses,  \* resolver: the working set
    new_clause,       \* resolver: the accumulated resolvents
    state,            \* resolver: "RUNNING", "UNSAT" (printed no), "SAT" (printed yes),
                      \*           "EXCEPTION" (uncaught exception), "EXIT" (exit() in getFinalPredicate)
    round,            \* resolver: number of completed passes of the while loop
    derived,          \* history: every resolvent resolve has returned so far
    call,             \* the function call under study (unify, unify_predicates, resolve)
    ret               \* its outcome

vars == <<clauses, current_clauses, new_clause, state, round, derived, call, ret>>

----------------------------------------------------------------------------
(* Bounds of the model *)

\* the largest number of clause lines in an input file
MaxInput == 3
\* the working-set size up to which a further pass of the while loop is explored
MaxClauses == 4

----------------------------------------------------------------------------
(* Outcomes *)

Val(v) == [kind |-> "val", val |-> v]
None == [kind |-> "None"]
Raise(e) == [kind |-> "raise", exc |-> e]
Exit(s) == [kind |-> "exit", out |-> s]
\* an outcome that leaves the enclosing function at once
Abrupt(o) == o.kind \in {"raise", "exit"}

\* an assignment "name = expression": the expression is evaluated once, and F is the
\* code that follows, reading the name
Bind(v, F(_)) == CHOOSE r \in {F(x) : x \in {v}} : TRUE

----------------------------------------------------------------------------
(* Python str operations *)

Contains(s, c) == \E i \in 1..Len(s) : s[i] = c

\* s.index(c), 0-based; only used where c occurs in s
Index(s, c) == (CHOOSE i \in 1..Len(s) : s[i] = c /\ \A j \in 1..(i-1) : s[j] # c) - 1

\* s[a:b] with 0 <= a
Slice(s, a, b) == SubSeq(s, a + 1, IF b > Len(s) THEN Len(s) ELSE b)

\* s.strip()
Strip(s) ==
    LET nonblank == {i \in 1..Len(s) : s[i] # " "}
    IN  IF nonblank = {} THEN <<>>
        ELSE SubSeq(s, CHOOSE i \in nonblank : \A j \in nonblank : i <= j,
                       CHOOSE i \in nonblank : \A j \in nonblank : i >= j)

\* s.split(sep)
RECURSIVE Split(_, _)
Split(s, sep) ==
    IF ~Contains(s, sep) THEN <<s>>
    ELSE <<Slice(s, 0, Index(s, sep))>> \o Split(Slice(s, Index(s, sep) + 1, Len(s)), sep)

\* s.split(): the maximal runs of non-blank characters
RECURSIVE SplitWs(_)
SplitWs(s) ==
    LET t == Strip(s)
    IN  IF t = <<>> THEN <<>>
        ELSE IF ~Contains(t, " ") THEN <<t>>
        ELSE <<Slice(t, 0, Index(t, " "))>> \o SplitWs(Slice(t, Index(t, " "), Len(t)))

\* the concatenation of a sequence of strings
RECURSIVE Concat(_)
Concat(ss) == IF ss = <<>> THEN <<>> ELSE Head(ss) \o Concat(Tail(ss))

----------------------------------------------------------------------------
(* Python dict operations *)

EmptyDict == <<>>
\* a | b : the bindings of b win
DictOr(a, b) == b @@ a
\* d[k] = v
DictSet(d, k, v) == (k :> v) @@ d

----------------------------------------------------------------------------
(* The data model *)

FUNCTION_TYPE == "function"
VARIABLE_TYPE == "variable"
PREDICATE_TYPE == "predicate"
CONSTANT_TYPE == "constant"

\* the declared symbols of the input file (lines 2 and 3 of the file)
variables == {<<"x">>, <<"y">>, <<"z">>}
constants == {<<"a">>, <<"b">>}

\* Predicate.__init__ called with the positional arguments args: five are required
PredicateInit(args, id) ==
    IF Len(args) # 5 THEN Raise("TypeError")
    ELSE Val([name |-> args[1], negated |-> args[2], terms |-> args[3],
              type |-> args[4], nameTag |-> args[5], id |-> id])

\* Predicate(name, negated, terms, type, nameTag): a new object of identity id
Predicate(name, negated, terms, type, nameTag, id) ==
    PredicateInit(<<name, negated, terms, type, nameTag>>, id).val

\* the identity of objects whose identity the program never tests
NoId == <<>>

\* Predicate.__eq__
PredicateEq(self, other) ==
    /\ self.name = other.name
    /\ self.type = other.type
    /\ self.negated = other.negated

\* Predicate.__copy__
PredicateCopy(self) ==
    PredicateInit(<<self.name, self.negated, self.terms, self.type>>, NoId)

Clause(name, predicates) == [name |-> name, predicates |-> predicates]

\* Clause.__eq__
ClauseEq(self, other) ==
    IF Len(self.predicates) = 0 /\ Len(other.predicates) = 0 /\ self.name = other.name
    THEN TRUE
    ELSE /\ self.name = other.name
         /\ Len(self.predicates) = Len(other.predicates)
         /\ \A i \in 1..(Len(self.predicates) - 1) :
                PredicateEq(self.predicates[i], other.predicates[i])

\* Clause("", [])
EmptyClause == Clause(<<>>, <<>>)

----------------------------------------------------------------------------
(* Python set operations on sets of Clause objects *)

\* c in s
PyIn(c, s) == \E d \in s : ClauseEq(d, c)

\* s.add(c): an equal element already present stays
PyAdd(s, c) == IF PyIn(c, s) THEN s ELSE s \cup {c}

\* set(list): of equal elements the first stays
RECURSIVE PySetOf(_)
PySetOf(list) ==
    IF list = <<>> THEN {}
    ELSE Bind(PySetOf(SubSeq(list, 1, Len(list) - 1)), LAMBDA s : PyAdd(s, list[Len(list)]))

\* a | b : the elements of a stay
PyUnion(a, b) == a \cup {c \in b : ~PyIn(c, a)}

\* a.issubset(b)
PyIsSubset(a, b) == \A c \in a : PyIn(c, b)

\* c in list
PyInList(c, list) == \E i \in 1..Len(list) : ClauseEq(list[i], c)

----------------------------------------------------------------------------
(* The parser *)

\* termParser(term_str, variables, constants)
RECURSIVE termParser(_)
termParser(raw) ==
    LET term_str == Strip(raw)
    IN  IF Contains(term_str, "(")
        THEN LET first_paren == Index(term_str, "(")
                 second_paren == Len(term_str) - 1
                 func_args == Split(Slice(term_str, first_paren + 1, second_paren), ",")
                 args == [k \in 1..Len(func_args) |-> termParser(func_args[k])]
             IN  IF \E k \in 1..Len(args) : Abrupt(args[k])
                 THEN Raise("Exception")
                 ELSE Val(Predicate(term_str, FALSE, [k \in 1..Len(args) |-> args[k].val],
                                    FUNCTION_TYPE, Slice(term_str, 0, first_paren), NoId))
        ELSE IF term_str \in variables
        THEN Val(Predicate(term_str, FALSE, <<>>, VARIABLE_TYPE, term_str, NoId))
        ELSE IF term_str \in constants
        THEN Val(Predicate(term_str, FALSE, <<>>, CONSTANT_TYPE, term_str, NoId))
        ELSE Raise("Exception")

\* parseInput, the body of "for predicate in sub_clause": one literal of a clause line;
\* id is the identity of the Predicate object it creates
ParsePredicate(token, id) ==
    IF ~Contains(token, "(")
    THEN LET predicate == token \o <<"(", ")">>
             from == IF predicate[1] = "!" THEN 1 ELSE 0
             name == Slice(predicate, from, Index(predicate, "("))
         IN  Val(Predicate(name, predicate[1] = "!", <<>>, PREDICATE_TYPE, name, id))
    ELSE LET predicate == token
             terms_of_pred == Slice(predicate, Index(predicate, "(") + 1, Len(predicate) - 1)
             parsedTerms == Split(terms_of_pred, ",")
             terms == [k \in 1..Len(parsedTerms) |-> termParser(parsedTerms[k])]
             from == IF predicate[1] = "!" THEN 1 ELSE 0
             name == Slice(predicate, from, Index(predicate, "("))
         IN  IF \E k \in 1..Len(terms) : Abrupt(terms[k])
             THEN Raise("Exception")
             ELSE Val(Predicate(name, predicate[1] = "!",
                                [k \in 1..Len(terms) |-> terms[k].val],
                                PREDICATE_TYPE, name, id))

\* parseInput, the body of "for clause in clauses": the Clause object of clause line
\* number n; its k-th literal is the object <<0, n, k>>
ParseClause(clause, n) ==
    LET sub_clause == SplitWs(clause)
        pred_obj == [k \in 1..Len(sub_clause) |-> ParsePredicate(sub_clause[k], <<0, n, k>>)]
    IN  IF \E k \in 1..Len(pred_obj) : Abrupt(pred_obj[k])
        THEN Raise("Exception")
        ELSE Val(Clause(clause, [k \in 1..Len(pred_obj) |-> pred_obj[k].val]))

----------------------------------------------------------------------------
(* Unification *)

\* getFinalForm(variableName, theta); seen is the chain followed so far: a chain
\* that returns to a name recurses until Python raises RecursionError
RECURSIVE getFinalFormFrom(_, _, _)
getFinalFormFrom(variableName, theta, seen) ==
    IF variableName \in DOMAIN theta
    THEN IF variableName \in seen THEN Raise("RecursionError")
         ELSE getFinalFormFrom(theta[variableName], theta, seen \cup {variableName})
    ELSE Val(variableName)

getFinalForm(variableName, theta) == getFinalFormFrom(variableName, theta, {})

RECURSIVE unify(_, _, _)
RECURSIVE unify_variable(_, _, _)
RECURSIVE unify_arguments(_, _, _, _)

\* unify, the two nested for loops of the function case: pair number k (from 0) of
\* t1.terms x t2.terms, termOuter major
unify_arguments(t1, t2, k, theta) ==
    IF k >= Len(t1.terms) * Len(t2.terms) THEN Val(theta)
    ELSE LET termOuter == t1.terms[(k \div Len(t2.terms)) + 1]
             termInner == t2.terms[(k % Len(t2.terms)) + 1]
         IN  Bind(unify(termInner, termOuter, theta), LAMBDA uni_res :
                 IF Abrupt(uni_res) THEN uni_res
                 ELSE IF uni_res.kind = "None" THEN None
                 ELSE Bind(DictOr(theta, uni_res.val), LAMBDA new_theta :
                          unify_arguments(t1, t2, k + 1, new_theta)))

\* unify(t1, t2, oldTheta)
unify(t1, t2, oldTheta) ==
    LET theta == oldTheta
    IN  IF PredicateEq(t1, t2) THEN Val(theta)
        ELSE IF t1.type = VARIABLE_TYPE
        THEN LET uni_var_res == unify_variable(t1, t2, theta)
             IN  IF Abrupt(uni_var_res) THEN uni_var_res
                 ELSE IF uni_var_res.kind # "None"
                 THEN Val(DictOr(theta, uni_var_res.val))
                 ELSE None
        ELSE IF t2.type = VARIABLE_TYPE
        THEN LET uni_var_res == unify_variable(t2, t1, theta)
             IN  IF Abrupt(uni_var_res) THEN uni_var_res
                 ELSE IF uni_var_res.kind # "None"
                 THEN Val(DictOr(theta, uni_var_res.val))
                 ELSE None
        ELSE IF t2.type = FUNCTION_TYPE /\ t1.type = FUNCTION_TYPE
        THEN IF Slice(t1.name, 0, Index(t1.name, "(")) # Slice(t2.name, 0, Index(t2.name, "("))
             THEN None
             ELSE unify_arguments(t1, t2, 0, theta)
        ELSE None

\* unify_variable(variable, term2, theta); theta is unify's own copy, which line 234
\* updates in place
unify_variable(variable, term2, theta) ==
    IF variable.name \in DOMAIN theta
    THEN LET linked_var_name == getFinalForm(variable.name, theta)
             new_var_term == PredicateCopy(variable)
         IN  IF Abrupt(linked_var_name) THEN linked_var_name
             ELSE IF Abrupt(new_var_term) THEN new_var_term
             ELSE LET u == unify([new_var_term.val EXCEPT !.name = linked_var_name.val],
                                 term2, theta)
                  IN  IF Abrupt(u) THEN u
                      ELSE IF u.kind = "None" THEN Raise("TypeError")
                      ELSE Val(DictOr(theta, u.val))
    ELSE IF term2.name \in DOMAIN theta
    THEN LET linkedTermName == getFinalForm(term2.name, theta)
             newTerm == PredicateCopy(term2)
         IN  IF Abrupt(linkedTermName) THEN linkedTermName
             ELSE IF Abrupt(newTerm) THEN newTerm
             ELSE LET u == unify(variable, [newTerm.val EXCEPT !.name = linkedTermName.val],
                                 theta)
                  IN  IF Abrupt(u) THEN u
                      ELSE IF u.kind = "None" THEN Raise("TypeError")
                      ELSE Val(DictOr(theta, u.val))
    ELSE Val(DictSet(theta, variable.name, term2.name))

\* unify_predicates, the for loop from index i (from 0) on
RECURSIVE unify_predicates_from(_, _, _, _)
unify_predicates_from(p1, p2, i, unification_theta) ==
    IF i >= Len(p1.terms) THEN Val(unification_theta)
    ELSE IF i >= Len(p2.terms) THEN Raise("IndexError")
    ELSE Bind(unify(p1.terms[i + 1], p2.terms[i + 1], unification_theta), LAMBDA tempTheta :
             IF Abrupt(tempTheta) THEN tempTheta
             ELSE IF tempTheta.kind = "None" THEN None
             ELSE Bind(DictOr(tempTheta.val, unification_theta), LAMBDA new_theta :
                      unify_predicates_from(p1, p2, i + 1, new_theta)))

\* unify_predicates(p1, p2)
unify_predicates(p1, p2) == unify_predicates_from(p1, p2, 0, EmptyDict)

----------------------------------------------------------------------------
(* Resolution *)

RECURSIVE getFinalPredicate(_, _, _)
RECURSIVE getFinalTerms(_, _)

\* getFinalPredicate, the loop "for term in predicate.terms": the list newTerms
getFinalTerms(terms, theta) ==
    IF terms = <<>> THEN Val(<<>>)
    ELSE LET term == Head(terms)
             new ==
                 IF term.type = CONSTANT_TYPE THEN Val(<<term>>)
                 ELSE IF term.type = VARIABLE_TYPE
                 THEN LET final_form == getFinalForm(term.name, theta)
                      IN  IF Abrupt(final_form) THEN final_form
                          ELSE IF final_form.val \in constants
                          THEN Val(<<Predicate(final_form.val, FALSE, <<>>, CONSTANT_TYPE,
                                               final_form.val, NoId)>>)
                          ELSE IF final_form.val \in variables
                          THEN Val(<<Predicate(final_form.val, FALSE, <<>>, VARIABLE_TYPE,
                                               final_form.val, NoId)>>)
                          ELSE IF Contains(final_form.val, "(")
                          THEN LET new_var == termParser(final_form.val)
                               IN  IF Abrupt(new_var) THEN new_var ELSE Val(<<new_var.val>>)
                          ELSE Exit("error")
                 ELSE IF term.type = FUNCTION_TYPE
                 THEN LET finalFunction == getFinalPredicate(term, theta, NoId)
                      IN  IF Abrupt(finalFunction) THEN finalFunction
                          ELSE Val(<<finalFunction.val>>)
                 ELSE Val(<<>>)
         IN  Bind(new, LAMBDA first :
                 IF Abrupt(first) THEN first
                 ELSE Bind(getFinalTerms(Tail(terms), theta), LAMBDA rest :
                          IF Abrupt(rest) THEN rest ELSE Val(first.val \o rest.val)))

\* getFinalPredicate(predicate, theta): a new Predicate object, of identity id
getFinalPredicate(predicate, theta, id) ==
    Bind(getFinalTerms(predicate.terms, theta), LAMBDA newTerms :
        IF Abrupt(newTerms) THEN newTerms
        ELSE LET newName == predicate.nameTag \o <<"(">>
                            \o Concat([k \in 1..Len(newTerms.val) |->
                                           <<" ">> \o newTerms.val[k].name])
                            \o <<" ", ")">>
             IN  Val(Predicate(newName, predicate.negated, newTerms.val, predicate.type,
                               predicate.nameTag, id)))

\* resolve: "!" if p.negated else "" + p.name + " "
NamePart(p) == IF p.negated THEN <<"!">> ELSE p.name \o <<" ">>

\* the test of line 332 without its comparison of the negations
ComplementaryIgnoringSign(c1_pred, c2_pred) == c2_pred.nameTag = c1_pred.nameTag

\* resolve: the test that selects a pair of literals (line 332)
Complementary(c1_pred, c2_pred) ==
    c2_pred.nameTag = c1_pred.nameTag /\ c1_pred.negated # c2_pred.negated

\* resolve, lines 339-352: the literals of a parent other than the object pred
OthersByIdentity(predicates, pred) ==
    SelectSeq(predicates, LAMBDA p : p.id # pred.id)

\* resolve, lines 369-382: the literals of a parent whose name differs from pred's,
\* each replaced by getFinalPredicate of it; the new objects are ids \o <<k>>
RECURSIVE OthersByName(_, _, _, _, _)
OthersByName(predicates, pred, theta, ids, k) ==
    IF k > Len(predicates) THEN Val(<<>>)
    ELSE IF predicates[k].name = pred.name
    THEN OthersByName(predicates, pred, theta, ids, k + 1)
    ELSE Bind(getFinalPredicate(predicates[k], theta, ids \o <<k>>), LAMBDA final :
             IF Abrupt(final) THEN final
             ELSE Bind(OthersByName(predicates, pred, theta, ids, k + 1), LAMBDA rest :
                      IF Abrupt(rest) THEN rest ELSE Val(<<final.val>> \o rest.val)))

\* resolve, the body of the inner for loop for c1_pred = clause1.predicates[i] and
\* c2_pred = clause2.predicates[j]: the new global_unification and the clauses added
\* to out_clause; site is the place of this resolve call in the run
resolve_pair(clause1, clause2, i, j, global_unification, site) ==
    LET c1_pred == clause1.predicates[i]
        c2_pred == clause2.predicates[j]
    IN  IF ~Complementary(c1_pred, c2_pred)
        THEN Val([global_unification |-> global_unification, added |-> <<>>])
        ELSE IF c1_pred.terms = <<>> /\ c2_pred.terms = <<>>
        THEN LET output_pred == OthersByIdentity(clause1.predicates, c1_pred)
                                \o OthersByIdentity(clause2.predicates, c2_pred)
                 new_name == Concat([k \in 1..Len(output_pred) |-> NamePart(output_pred[k])])
             IN  Val([global_unification |-> global_unification,
                      added |-> <<Clause(new_name, output_pred)>>])
        ELSE Bind(unify_predicates(c1_pred, c2_pred), LAMBDA pred_uni :
                 IF Abrupt(pred_uni) THEN pred_uni
                 ELSE IF pred_uni.kind = "None"
                 THEN Val([global_unification |-> global_unification, added |-> <<>>])
                 ELSE Bind(DictOr(global_unification, pred_uni.val), LAMBDA global :
                      LET kept1 == SelectSeq(clause1.predicates,
                                             LAMBDA p : p.name # c1_pred.name)
                          kept2 == SelectSeq(clause2.predicates,
                                             LAMBDA p : p.name # c2_pred.name)
                          new_name == Concat([k \in 1..Len(kept1) |-> NamePart(kept1[k])])
                                      \o Concat([k \in 1..Len(kept2) |-> NamePart(kept2[k])])
                      IN  Bind(OthersByName(clause1.predicates, c1_pred, global,
                                            site \o <<i, j, 1>>, 1), LAMBDA out1 :
                          IF Abrupt(out1) THEN out1
                          ELSE Bind(OthersByName(clause2.predicates, c2_pred, global,
                                                 site \o <<i, j, 2>>, 1), LAMBDA out2 :
                                   IF Abrupt(out2) THEN out2
                                   ELSE Val([global_unification |-> global,
                                             added |-> <<Clause(new_name,
                                                                out1.val \o out2.val)>>])))))

\* resolve, the two nested for loops from pair number k (from 0) of
\* clause1.predicates x clause2.predicates on, c1_pred major
RECURSIVE resolve_from(_, _, _, _, _, _)
resolve_from(clause1, clause2, k, global_unification, out_clause, site) ==
    IF k >= Len(clause1.predicates) * Len(clause2.predicates) THEN Val(out_clause)
    ELSE LET i == (k \div Len(clause2.predicates)) + 1
             j == (k % Len(clause2.predicates)) + 1
         IN  Bind(resolve_pair(clause1, clause2, i, j, global_unification, site), LAMBDA step :
                 IF Abrupt(step) THEN step
                 ELSE Bind(out_clause \o step.val.added, LAMBDA new_out :
                          resolve_from(clause1, clause2, k + 1, step.val.global_unification,
                                       new_out, site)))

\* resolve(clause1, clause2): the resolvents, then the two parents
resolve(clause1, clause2, site) ==
    Bind(resolve_from(clause1, clause2, 0, EmptyDict, <<>>, site), LAMBDA out_clause :
        IF Abrupt(out_clause) THEN out_clause
        ELSE Val(out_clause.val \o <<clause1, clause2>>))

----------------------------------------------------------------------------
(* The saturation loop *)

\* list(current_clauses): a set of Clause objects iterates in the order of the hashes
\* of their names, which differs from one run to the next; every order is possible
RECURSIVE ListsOf(_)
ListsOf(s) ==
    IF s = {} THEN {<<>>}
    ELSE UNION {{<<c>> \o rest : rest \in ListsOf(s \ {c})} : c \in s}

\* resolver, lines 405-406: the index pairs from (c1_index, c2_index) on, in the order
\* of the two for loops over a list of n clauses
RECURSIVE IndexPairs(_, _, _)
IndexPairs(c1_index, c2_index, n) ==
    IF c1_index >= n THEN <<>>
    ELSE IF c2_index >= n THEN IndexPairs(c1_index + 1, c1_index + 2, n)
    ELSE <<(<<c1_index, c2_index>>)>> \o IndexPairs(c1_index, c2_index + 1, n)

\* resolver, lines 405-416: the for loops over the index pairs left to do in pass
\* number pass; "for" ends with every pair done, otherwise the pass left the program
RECURSIVE resolver_pairs(_, _, _, _, _)
resolver_pairs(clause_loop, todo, new, history, pass) ==
    IF todo = <<>>
    THEN [ended |-> "for", new_clause |-> new, derived |-> history]
    ELSE LET c1 == clause_loop[Head(todo)[1] + 1]
             c2 == clause_loop[Head(todo)[2] + 1]
         IN  Bind(resolve(c1, c2, <<pass>> \o Head(todo)), LAMBDA resolvents :
                 IF resolvents.kind = "raise"
                 THEN [ended |-> "EXCEPTION", new_clause |-> new, derived |-> history]
                 ELSE IF resolvents.kind = "exit"
                 THEN [ended |-> "EXIT", new_clause |-> new, derived |-> history]
                 ELSE LET list == resolvents.val
                      IN  Bind(history \cup {list[k] : k \in 1..(Len(list) - 2)}, LAMBDA seen :
                              IF PyInList(EmptyClause, list)
                              THEN [ended |-> "UNSAT", new_clause |-> new, derived |-> seen]
                              ELSE Bind(PyUnion(new, PySetOf(list)), LAMBDA updated :
                                       resolver_pairs(clause_loop, Tail(todo), updated,
                                                      seen, pass))))

\* the clause lines an input file draws from
InputLines ==
    << <<"P", "(", "a", ")", " ", "P", "(", "b", ")">>,
       <<"!", "P", "(", "a", ")">>,
       <<"!", "P", "(", "b", ")">>,
       <<"P", "(", "x", ")", " ", "!", "Q", "(", "x", ")">>,
       <<"P", "(", "x", ")">>,
       <<>>,
       <<"P", " ", "!", "P", " ", "Q">>,
       <<"!", "P", " ", "P", " ", "Q">>,
       <<"R", "(", "x", ",", "x", ")">>,
       <<"!", "R", "(", "a", ",", "a", ")">> >>

\* the Clause object parseInput builds from clause line number n
InputClause(n) == ParseClause(InputLines[n], n).val

\* the numbers of a set, in increasing order
RECURSIVE Sorted(_)
Sorted(s) ==
    IF s = {} THEN <<>>
    ELSE LET least == CHOOSE n \in s : \A m \in s : n <= m
         IN  <<least>> \o Sorted(s \ {least})

\* the clause lists parseInput returns for the input files of at most MaxInput of
\* the lines above, in the order of InputLines
InputFiles ==
    {[k \in 1..Len(Sorted(s)) |-> InputClause(Sorted(s)[k])] :
        s \in {t \in SUBSET (1..Len(InputLines)) : Cardinality(t) \in 1..MaxInput}}

NoCall == [fn |-> "none"]
NotReturned == [kind |-> "pending"]

\* resolver, lines 400-401: the state on entry to the while loop
Init ==
    /\ clauses \in InputFiles
    /\ current_clauses = PySetOf(clauses)
    /\ new_clause = {}
    /\ state = "RUNNING"
    /\ round = 0
    /\ derived = {}
    /\ call = NoCall
    /\ ret = NotReturned

\* resolver, lines 404-424: one pass of the while loop
Round ==
    /\ state = "RUNNING"
    /\ Cardinality(current_clauses) <= MaxClauses
    /\ \E clause_loop \in ListsOf(current_clauses) :
           \E todo \in {IndexPairs(0, 1, Len(clause_loop))} :
           \E pass \in {resolver_pairs(clause_loop, todo, new_clause, derived, round + 1)} :
               /\ new_clause' = pass.new_clause
               /\ derived' = pass.derived
               /\ IF pass.ended # "for"
                  THEN state' = pass.ended /\ UNCHANGED current_clauses
                  ELSE IF PyIsSubset(pass.new_clause, current_clauses)
                  THEN state' = "SAT" /\ UNCHANGED current_clauses
                  ELSE /\ state' = "RUNNING"
                       /\ current_clauses' = PyUnion(current_clauses, pass.new_clause)
    /\ round' = round + 1
    /\ UNCHANGED <<clauses, call, ret>>

Next == Round

Spec == Init /\ [][Next]_vars

\* the interpreter runs the loop on: a pass that can be taken is taken
FairSpec == Spec /\ WF_vars(Next)

----------------------------------------------------------------------------
(* Calls of unify, unify_predicates and resolve on their own *)

\* the state of a program that is not running the saturation loop
NoRun ==
    /\ clauses = <<>>
    /\ current_clauses = {}
    /\ new_clause = {}
    /\ state = "IDLE"
    /\ round = 0
    /\ derived = {}

\* the terms unify is called with
TermStrings ==
    { <<"x">>, <<"y">>, <<"z">>, <<"a">>, <<"b">>,
      <<"f", "(", "x", ")">>, <<"f", "(", "a", ")">>, <<"g", "(", "a", ")">>,
      <<"f", "(", "y", ",", "z", ")">>, <<"f", "(", "a", ",", "b", ")">>,
      <<"f", "(", "a", ",", "y", ")">> }

UnifyTerms == {termParser(s).val : s \in TermStrings}

\* the substitutions unify is called with
UnifyThetas == {EmptyDict, <<"x">> :> <<"a">>}

\* the literals unify_predicates is called with
LiteralStrings ==
    { <<"P", "(", "x", ",", "x", ")">>, <<"P", "(", "a", ",", "b", ")">>,
      <<"P", "(", "a", ",", "a", ")">>, <<"P", "(", "x", ",", "y", ")">>,
      <<"P", "(", "y", ",", "x", ")">>, <<"P", "(", "x", ")">>,
      <<"P", "(", "a", ")">>, <<"P", "(", "f", "(", "x", ")", ")">> }

UnifyLiterals == {ParsePredicate(s, NoId).val : s \in LiteralStrings}

InitUnify ==
    /\ NoRun
    /\ \/ call \in [fn : {"unify"}, t1 : UnifyTerms, t2 : UnifyTerms, theta : UnifyThetas]
       \/ call \in [fn : {"unify_predicates"}, p1 : UnifyLiterals, p2 : UnifyLiterals]
    /\ ret = NotReturned

unify_call ==
    /\ call.fn = "unify"
    /\ ret.kind = "pending"
    /\ ret' = unify(call.t1, call.t2, call.theta)
    /\ UNCHANGED <<clauses, current_clauses, new_clause, state, round, derived, call>>

unify_predicates_call ==
    /\ call.fn = "unify_predicates"
    /\ ret.kind = "pending"
    /\ ret' = unify_predicates(call.p1, call.p2)
    /\ UNCHANGED <<clauses, current_clauses, new_clause, state, round, derived, call>>

NextUnify == unify_call \/ unify_predicates_call

SpecUnify == InitUnify /\ [][NextUnify]_vars

\* the clause lines resolve is called with
ResolveLines ==
    InputLines \o
    << <<"P", "(", "x", ")", " ", "Q", "(", "y", ")">>,
       <<"!", "P", "(", "a", ")", " ", "!", "Q", "(", "b", ")">>,
       <<"Q", "(", "a", ")">> >>

\* the place of the first resolve call of the first pass
FirstSite == <<1, 0, 1>>

InitResolve ==
    /\ NoRun
    /\ \E m, n \in 1..Len(ResolveLines) :
           /\ m # n
           /\ call = [fn |-> "resolve",
                      clause1 |-> ParseClause(ResolveLines[m], m).val,
                      clause2 |-> ParseClause(ResolveLines[n], n).val]
    /\ ret = NotReturned

resolve_call ==
    /\ call.fn = "resolve"
    /\ ret.kind = "pending"
    /\ ret' = resolve(call.clause1, call.clause2, FirstSite)
    /\ UNCHANGED <<clauses, current_clauses, new_clause, state, round, derived, call>>

NextResolve == resolve_call

SpecResolve == InitResolve /\ [][NextResolve]_vars

----------------------------------------------------------------------------
(* Notions the properties are stated in *)

\* the set of the elements of a sequence
Range(seq) == {seq[k] : k \in 1..Len(seq)}

\* a term as a tree: its kind, its symbol and its arguments (a function's symbol is
\* its name up to the parenthesis)
RECURSIVE Tree(_)
Tree(t) ==
    [type |-> t.type, symbol |-> t.nameTag,
     args |-> [k \in 1..Len(t.terms) |-> Tree(t.terms[k])]]

\* a literal occurrence: predicate name, negation and arguments
Literal(p) ==
    [predicate |-> p.nameTag, negated |-> p.negated,
     args |-> [k \in 1..Len(p.terms) |-> Tree(p.terms[k])]]

\* the literal occurrences of a list of Predicate objects, in order
Literals(predicates) == [k \in 1..Len(predicates) |-> Literal(predicates[k])]

\* the number of occurrences of literal l in a clause
Occurrences(l, c) == Cardinality({k \in 1..Len(c.predicates) : Literal(c.predicates[k]) = l})

\* two clauses with the same multiset of literals
SameLiterals(c, d) ==
    \A l \in Range(Literals(c.predicates)) \cup Range(Literals(d.predicates)) :
        Occurrences(l, c) = Occurrences(l, d)

RECURSIVE IsGroundTree(_)
IsGroundTree(t) ==
    /\ t.type # VARIABLE_TYPE
    /\ \A k \in 1..Len(t.args) : IsGroundTree(t.args[k])

RECURSIVE HasFunction(_)
HasFunction(t) ==
    \/ t.type = FUNCTION_TYPE
    \/ \E k \in 1..Len(t.args) : HasFunction(t.args[k])

AllLiterals(cs) == UNION {Range(Literals(c.predicates)) : c \in cs}

GroundInput(cs) == \A l \in AllLiterals(cs) : \A k \in 1..Len(l.args) : IsGroundTree(l.args[k])

FunctionFree(cs) == \A l \in AllLiterals(cs) : \A k \in 1..Len(l.args) : ~HasFunction(l.args[k])

\* a ground atom
Atom(l) == [predicate |-> l.predicate, args |-> l.args]

\* some truth assignment to the ground atoms makes every clause of cs true
Satisfiable(cs) ==
    \E assignment \in SUBSET {Atom(l) : l \in AllLiterals(cs)} :
        \A c \in cs :
            \E l \in Range(Literals(c.predicates)) : (Atom(l) \in assignment) # l.negated

\* the values a variable takes in a ground instance
GroundValues ==
    {[type |-> CONSTANT_TYPE, symbol |-> c, args |-> <<>>] : c \in constants}

\* the instance of a tree under an assignment of ground values to the variables
RECURSIVE Instance(_, _)
Instance(t, sigma) ==
    IF t.type = VARIABLE_TYPE THEN sigma[t.symbol]
    ELSE [t EXCEPT !.args = [k \in 1..Len(t.args) |-> Instance(t.args[k], sigma)]]

\* two argument lists that unify (for lists over constants and variables: that have
\* a common ground instance)
Unifiable(args1, args2) ==
    /\ Len(args1) = Len(args2)
    /\ \E sigma \in [variables -> GroundValues] :
           \A k \in 1..Len(args1) : Instance(args1[k], sigma) = Instance(args2[k], sigma)

\* two literals with the same predicate name and opposite negation
ComplementaryLiterals(l1, l2) == l1.predicate = l2.predicate /\ l1.negated # l2.negated

\* no two clauses of cs hold a pair of complementary literals
NoComplementaryPair(cs) ==
    \A c1, c2 \in cs :
        c1 # c2 => \A l1 \in Range(Literals(c1.predicates)),
                      l2 \in Range(Literals(c2.predicates)) : ~ComplementaryLiterals(l1, l2)

InputSet == Range(clauses)

----------------------------------------------------------------------------
(* Properties of the saturation loop *)

\* C1: when resolver ends in UNSAT on ground input clauses, no truth assignment to the
\* ground atoms makes every input clause true.
C1_UnsatIsSound ==
    (state = "UNSAT" /\ GroundInput(InputSet)) => ~Satisfiable(InputSet)

\* two input clauses of one literal each, the literals complementary with
\* argument lists that unify
UnitPair(c1, c2) ==
    /\ Len(c1.predicates) = 1
    /\ Len(c2.predicates) = 1
    /\ ComplementaryLiterals(Literal(c1.predicates[1]), Literal(c2.predicates[1]))
    /\ Unifiable(Literal(c1.predicates[1]).args, Literal(c2.predicates[1]).args)

\* C2: for two unit clauses with complementary literals whose argument lists unify,
\* resolve returns a list holding a clause equal to the empty clause, and resolver on
\* a set holding both ends its first pass in UNSAT.
C2_UnitRefutation ==
    \A c1, c2 \in InputSet :
        (UnitPair(c1, c2) /\ round >= 1) =>
            /\ LET resolvents == resolve(c1, c2, FirstSite)
               IN  resolvents.kind = "val" /\ PyInList(EmptyClause, resolvents.val)
            /\ round = 1
            /\ state = "UNSAT"

\* what C3 says of the run on an input set
EndsSatInFirstPass ==
    /\ state # "UNSAT"
    /\ round <= 1
    /\ round = 1 => state = "SAT"
    /\ derived = {}

\* C3 as stated: on every input set no two clauses of which hold a pair of
\* complementary literals, resolver derives no resolvent and ends its first pass in
\* SAT; it never reaches UNSAT and never starts a second pass.
C3_AsStated == NoComplementaryPair(InputSet) => EndsSatInFirstPass

\* every clause has a literal, or the set has one clause only
NoEmptyClauseAmongSeveral ==
    \/ Cardinality(InputSet) = 1
    \/ \A c \in InputSet : Len(c.predicates) > 0

\* C3 amended: the same, for the input sets in which every clause has at least one
\* literal or which hold a single clause.
C3_NoPairEndsSat ==
    (NoComplementaryPair(InputSet) /\ NoEmptyClauseAmongSeveral) => EndsSatInFirstPass

\* a first pass that ended in SAT on three clauses without a complementary pair, one
\* of them of two literals
C3_Witness ==
    /\ NoComplementaryPair(InputSet)
    /\ NoEmptyClauseAmongSeveral
    /\ Cardinality(InputSet) = 3
    /\ \E c \in InputSet : Len(c.predicates) = 2
    /\ round = 1
    /\ state = "SAT"

\* C5: resolver ends in SAT only when every resolvent derived so far has the same
\* multiset of literals as some clause of the working set.
C5_FixpointByLiterals ==
    state = "SAT" => \A r \in derived : \E c \in current_clauses : SameLiterals(r, c)

\* the working set has outgrown MaxClauses: the run is followed no further
BeyondMaxClauses == Cardinality(current_clauses) > MaxClauses

\* C10: on function-free input the loop reaches UNSAT or SAT after finitely many
\* passes (as far as runs are followed).
C10_Terminates ==
    FunctionFree(InputSet) => <>(state \in {"UNSAT", "SAT"} \/ BeyondMaxClauses)

----------------------------------------------------------------------------
(* Properties of unify and unify_predicates *)

Returned == ret.kind # "pending"

\* C6: unify and unify_predicates return a substitution or None and never raise.
C6_NeverRaises == ret.kind \in {"pending", "val", "None"}

\* a function term's name up to the parenthesis
FunctionName(t) == Slice(t.name, 0, Index(t.name, "("))

\* the substitution obtained by unifying argument i of t1 with argument i of t2 for
\* i from left to right (from index i, from 0, on), threading theta through
RECURSIVE Positional(_, _, _, _)
Positional(t1, t2, i, theta) ==
    IF i >= Len(t1.terms) THEN Val(theta)
    ELSE LET u == unify(t1.terms[i + 1], t2.terms[i + 1], theta)
         IN  IF u.kind # "val" THEN u ELSE Positional(t1, t2, i + 1, u.val)

\* C7: unify on two function terms succeeds only if they have the same name and the
\* same number of arguments, and then returns what the position-by-position
\* unification of their arguments returns.
C7_PositionalFunctions ==
    (/\ call.fn = "unify"
     /\ Returned
     /\ call.t1.type = FUNCTION_TYPE
     /\ call.t2.type = FUNCTION_TYPE)
    => IF /\ FunctionName(call.t1) = FunctionName(call.t2)
          /\ Len(call.t1.terms) = Len(call.t2.terms)
       THEN ret = Positional(call.t1, call.t2, 0, call.theta)
       ELSE ret.kind # "val"

\* the variables of the term a name denotes
RECURSIVE VariablesOf(_)
VariablesOf(t) ==
    IF t.type = VARIABLE_TYPE THEN {t.symbol}
    ELSE UNION {VariablesOf(t.args[k]) : k \in 1..Len(t.args)}

\* the variables reached from the names in from by following theta any number of
\* times; done are the names already followed
RECURSIVE Reached(_, _, _)
Reached(theta, from, done) ==
    LET next == UNION {VariablesOf(Tree(termParser(theta[v]).val)) :
                          v \in (from \cap DOMAIN theta) \ done}
    IN  IF next \subseteq from THEN from
        ELSE Reached(theta, from \cup next, done \cup (from \cap DOMAIN theta))

\* theta binds v to a term in which v occurs, directly or through a chain of bindings
BoundToItself(theta, v) ==
    v \in Reached(theta, VariablesOf(Tree(termParser(theta[v]).val)), {})

\* C8: no substitution returned by unify or unify_predicates binds a variable to a
\* term in which that variable occurs, directly or through a chain of bindings.
C8_OccursCheck ==
    ret.kind = "val" => \A v \in DOMAIN ret.val : ~BoundToItself(ret.val, v)

----------------------------------------------------------------------------
(* Properties of resolve *)

\* the pairs <<i, j>> of literal positions in the order resolve tries them
PositionPairs(clause1, clause2) ==
    [k \in 1..(Len(clause1.predicates) * Len(clause2.predicates)) |->
        <<((k - 1) \div Len(clause2.predicates)) + 1,
          ((k - 1) % Len(clause2.predicates)) + 1>>]

\* a list without its element at position i
Without(list, i) == SubSeq(list, 1, i - 1) \o SubSeq(list, i + 1, Len(list))

\* the literals of predicates with substitution theta applied
Applied(predicates, theta) ==
    Literals([k \in 1..Len(predicates) |->
                 getFinalPredicate(predicates[k], theta, NoId).val])

\* the resolvent C4 describes for the literals at positions i and j: no clause
\* when they are not complementary or do not unify, otherwise every other literal
\* occurrence of both parents with the unifier applied
ResolventOfPair(clause1, clause2, i, j) ==
    LET p == clause1.predicates[i]
        q == clause2.predicates[j]
        s == IF p.terms = <<>> /\ q.terms = <<>> THEN Val(EmptyDict)
             ELSE unify_predicates(p, q)
    IN  IF ~ComplementaryLiterals(Literal(p), Literal(q)) \/ s.kind # "val" THEN <<>>
        ELSE << Applied(Without(clause1.predicates, i), s.val)
                \o Applied(Without(clause2.predicates, j), s.val) >>

\* C4: the resolvents resolve returns are, pair by pair, every literal occurrence of
\* clause1 other than p and every literal occurrence of clause2 other than q, each
\* with the unifier of p and q applied.
C4_ResolventConstruction ==
    (call.fn = "resolve" /\ ret.kind = "val") =>
        LET pairs == PositionPairs(call.clause1, call.clause2)
            described == Concat([k \in 1..Len(pairs) |->
                                    ResolventOfPair(call.clause1, call.clause2,
                                                    pairs[k][1], pairs[k][2])])
            built == [k \in 1..(Len(ret.val) - 2) |-> Literals(ret.val[k].predicates)]
        IN  built = described

\* C9: each resolvent resolve returns equals the one built for its pair when no
\* other pair of the two clauses has been tried before it.
C9_PairsIndependent ==
    (call.fn = "resolve" /\ ret.kind = "val") =>
        LET pairs == PositionPairs(call.clause1, call.clause2)
            alone == Concat([k \in 1..Len(pairs) |->
                                resolve_pair(call.clause1, call.clause2, pairs[k][1],
                                             pairs[k][2], EmptyDict, FirstSite).val.added])
        IN  SubSeq(ret.val, 1, Len(ret.val) - 2) = alone

====
